---- MODULE Spec2Model ----
(***************************************************************************)
(* PortManager daemon: the lease table (HashMap<u16, Lease> behind an      *)
(* RwLock), its SQLite mirror (table `leases`, PRIMARY KEY port), the      *)
(* request handlers allocate_port / release_port / heartbeat, the          *)
(* background cleaner task, and process start-up.                          *)
(*                                                                         *)
(* Every request handler takes leases.write() on its first line and keeps  *)
(* the guard until it returns, and takes db.lock() only while holding that *)
(* guard, so one handler call is one atomic step.  The cleaner is three    *)
(* steps: it reads the clock, scans under leases.read(), and removes under *)
(* leases.write(); handlers may run between those steps.  The lock-level   *)
(* steps (SpecLocks) check that atomicity: there each lock call and each   *)
(* table or store call is a step of its own.                               *)
(*                                                                         *)
(* Every call into the store may fail; each action takes the outcome as a  *)
(* parameter.  A process death inside a handler leaves the store as one of *)
(* these outcomes does, so Restart is taken between steps only.  The clock *)
(* is in whole seconds and does not run backwards.                         *)
(***************************************************************************)
EXTENDS Integers, Sequences, FiniteSets, TLC

\* ---------------------------------------------------------------- bounds
\* Port numbers are drawn from 1..MaxPort (standing for u16 values).
MaxPort == 2
\* The wall clock (seconds) runs over 0..MaxTime.
MaxTime == 2
\* Number of client requests plus process restarts in one behaviour.
MaxOps == 3

\* ------------------------------------------------------- program constants
\* const DEFAULT_TTL: u64 = 300;
DEFAULT_TTL == 300

Ports == 1..MaxPort

\* AllocateRequest values the clients send.  Option<T> is {} (None) or {x}.
Requests ==
    { [service_name |-> "a", ttl_seconds |-> {},  tags |-> {}],
      [service_name |-> "a", ttl_seconds |-> {1}, tags |-> {<<"t">>}],
      [service_name |-> "b", ttl_seconds |-> {0}, tags |-> {<<>>}] }

VARIABLES
    now,        \* Utc::now(), in seconds
    min_port,   \* AppState.min_port
    max_port,   \* AppState.max_port
    leases,     \* AppState.leases: port -> Lease
    store,      \* rows of the SQLite table `leases`
    pc,         \* the cleaner task: "idle" (interval.tick), "scan", "remove"
    sweepNow,   \* the cleaner's local `now`
    expired,    \* the cleaner's local `expired`
    last,       \* the step just taken and what it returned
    nops,       \* requests, restarts and sweep cycles counted so far
    held,       \* history: port -> what its current holder was told
    renewedAt,  \* history: port -> time of the last heartbeat answered OK
    due,        \* history: leases already expired when this sweep cycle began
    delFail,    \* history: ports with a failed store delete in this cycle
    writers,    \* tasks holding a guard of leases.write()
    readers,    \* tasks holding a guard of leases.read()
    dbHolders,  \* tasks holding the guard of db.lock()
    at,         \* task -> the operation it runs and where it stands in it
    keys,       \* the keys of the table, as the lock-level steps change them
    rows,       \* the ports with a store row, as the lock-level steps change them
    snapshot,   \* the cleaner's `expired` vector in the lock-level steps
    mlog        \* history: the table and store mutations, in order

\* The state of the handler-level actions, and of the lock-level steps.
lockVars == <<writers, readers, dbHolders, at, keys, rows, snapshot, mlog>>

vars == <<now, min_port, max_port, leases, store, pc, sweepNow, expired,
          last, nops, held, renewedAt, due, delFail, lockVars>>

\* ------------------------------------------------------------ data helpers
EmptyMap == [p \in {} |-> 0]

\* HashMap::insert
MapInsert(m, k, v) == [q \in (DOMAIN m) \cup {k} |-> IF q = k THEN v ELSE m[q]]

\* A removal that removes nothing.
MapRemoveNoop(m, k) == m

\* HashMap::remove
MapRemove(m, k) == [q \in (DOMAIN m) \ {k} |-> m[q]]

\* Option::unwrap_or
UnwrapOr(opt, dflt) == IF opt = {} THEN dflt ELSE CHOOSE x \in opt : TRUE

\* DateTime::to_rfc3339: the text of the instant.
ToRfc3339(t) == <<"rfc3339", t>>

\* DateTime::parse_from_rfc3339(..).unwrap_or_else(|_| fallback)
ParseRfc3339(s, fallback) ==
    IF Len(s) = 2 /\ s[1] = "rfc3339" THEN s[2] ELSE fallback

\* serde_json::to_string(&tags)
TagsToJson(tags) == <<"json", tags>>

\* serde_json::from_str(&tags_json).unwrap_or_default()
TagsFromJson(j) == IF Len(j) = 2 /\ j[1] = "json" THEN j[2] ELSE <<>>

\* --------------------------------------------------- store adapter (db.rs)
\* The parameter row of save_lease's INSERT.
RowOf(lease) ==
    [port           |-> lease.port,
     service_name   |-> lease.service_name,
     allocated_at   |-> ToRfc3339(lease.allocated_at),
     last_heartbeat |-> ToRfc3339(lease.last_heartbeat),
     ttl_seconds    |-> lease.ttl_seconds,
     tags           |-> TagsToJson(lease.tags)]

\* A plain INSERT that would leave the old row of the port in place.
SaveLeaseNoReplace(st, lease) == st \cup {RowOf(lease)}

\* save_lease: INSERT OR REPLACE on PRIMARY KEY port.
SaveLease(st, lease) == {r \in st : r.port # lease.port} \cup {RowOf(lease)}

\* delete_lease: DELETE FROM leases WHERE port = ?1
DeleteLease(st, port) == {r \in st : r.port # port}

\* delete_lease called once for each port of `ports`.
RECURSIVE DeleteEach(_, _)
DeleteEach(st, ports) ==
    IF ports = {} THEN st
    ELSE LET p == CHOOSE x \in ports : TRUE
         IN DeleteEach(DeleteLease(st, p), ports \ {p})

\* A loop that gives up at the first delete_lease error, as `?` would.
SweepDeletesOrAbort(st, ports, failed) ==
    IF failed = {} THEN DeleteEach(st, ports) ELSE st

\* The cleaner's loop over `expired`: `let _ = db::delete_lease(&db, port)`
\* for every port, the error of the ports in `failed` being dropped.
SweepDeletes(st, ports, failed) == DeleteEach(st, ports \ failed)

\* update_heartbeat: UPDATE leases SET last_heartbeat = ?1 WHERE port = ?2
UpdateHeartbeat(st, port, timestamp) ==
    { IF r.port = port
        THEN [r EXCEPT !.last_heartbeat = ToRfc3339(timestamp)]
        ELSE r : r \in st }

\* The row closure of load_leases.
LeaseOfRow(r, clock) ==
    [port           |-> r.port,
     service_name   |-> r.service_name,
     allocated_at   |-> ParseRfc3339(r.allocated_at, clock),
     last_heartbeat |-> ParseRfc3339(r.last_heartbeat, clock),
     ttl_seconds    |-> r.ttl_seconds,
     tags           |-> TagsFromJson(r.tags)]

\* load_leases: map.insert(lease.port, lease) for every row.
LoadLeases(st, clock) ==
    [p \in {r.port : r \in st} |->
        LeaseOfRow(CHOOSE r \in st : r.port = p, clock)]

\* The row closure of delete_expired: now > last_heartbeat + ttl_seconds.
RowExpired(r, clock) ==
    clock > ParseRfc3339(r.last_heartbeat, clock) + r.ttl_seconds

\* The `expired` vector of delete_expired.
ExpiredRows(st, clock) == {r.port : r \in {x \in st : RowExpired(x, clock)}}

\* ------------------------------------------------- lease table (main.rs)
\* A filter that counts the TTL from allocated_at.
LeaseExpiredFromAllocation(lease, clock) ==
    clock > lease.allocated_at + lease.ttl_seconds

\* A filter that lets a lease live one second past its deadline.
LeaseExpiredLate(lease, clock) ==
    clock > lease.last_heartbeat + lease.ttl_seconds + 1

\* The cleaner's filter: now > last_heartbeat + ttl_seconds.
LeaseExpired(lease, clock) ==
    clock > lease.last_heartbeat + lease.ttl_seconds

\* The cleaner's `expired` vector.
ExpiredPorts(m, clock) == {p \in DOMAIN m : LeaseExpired(m[p], clock)}

\* leases.values(), as list_leases returns it.
ListAll(m) == {m[p] : p \in DOMAIN m}

\* allocate_port's scan `for port in min_port..=max_port`, from `port` on;
\* 0 stands for selected_port = None.
RECURSIVE ScanFrom(_, _, _)
ScanFrom(m, port, hi) ==
    IF port > hi THEN 0
    ELSE IF port \notin DOMAIN m THEN port
    ELSE ScanFrom(m, port + 1, hi)

\* A scan that takes the last free port of the range.
RECURSIVE ScanDown(_, _, _)
ScanDown(m, lo, port) ==
    IF port < lo THEN 0
    ELSE IF port \notin DOMAIN m THEN port
    ELSE ScanDown(m, lo, port - 1)

SelectPortHighest(m, lo, hi) == ScanDown(m, lo, hi)

\* A scan over the half-open range min_port..max_port.
SelectPortExclusive(m, lo, hi) == ScanFrom(m, lo, hi - 1)

\* A scan that ignores min_port.
SelectPortFromFirst(m, lo, hi) == ScanFrom(m, 1, hi)

\* allocate_port: the first port of min_port..=max_port that is no key.
SelectPort(m, lo, hi) == ScanFrom(m, lo, hi)

\* The Lease allocate_port builds.
NewLease(port, payload, clock) ==
    [port           |-> port,
     service_name   |-> payload.service_name,
     allocated_at   |-> clock,
     last_heartbeat |-> clock,
     ttl_seconds    |-> UnwrapOr(payload.ttl_seconds, DEFAULT_TTL),
     tags           |-> UnwrapOr(payload.tags, <<>>)]

\* An insert made before the outcome of save_lease is known.
AllocInsertEarly(m, port, lease, saved) == MapInsert(m, port, lease)

\* allocate_port: `return Err(..)` when save_lease fails, else leases.insert.
AllocInsert(m, port, lease, saved) ==
    IF saved THEN MapInsert(m, port, lease) ELSE m

\* A renewal that restarts the lease as if it were allocated anew.
RenewLeaseAsNew(lease, clock) ==
    [lease EXCEPT !.last_heartbeat = clock, !.allocated_at = clock]

\* The orders in which HashMap::values can yield the leases of the keys S.
RECURSIVE IterOrders(_)
IterOrders(S) ==
    IF S = {} THEN {<<>>}
    ELSE UNION {{<<x>> \o t : t \in IterOrders(S \ {x})} : x \in S}

\* A lookup that reports only the representative port.
LookupServiceFirstOnly(m, name, order) ==
    LET matching == SelectSeq(order, LAMBDA p : m[p].service_name = name)
    IN IF matching = <<>>
       THEN [service_name |-> name, port |-> {}, all_ports |-> <<>>, lease |-> {}]
       ELSE [service_name |-> name,
             port         |-> {m[matching[1]].port},
             all_ports    |-> <<m[matching[1]].port>>,
             lease        |-> {m[matching[1]]}]

\* lookup_service with the query parameter `service` = name, when
\* leases.values() yields the leases in the key order `order`.
LookupService(m, name, order) ==
    LET matching == SelectSeq(order, LAMBDA p : m[p].service_name = name)
    IN IF matching = <<>>
       THEN [service_name |-> name, port |-> {}, all_ports |-> <<>>, lease |-> {}]
       ELSE [service_name |-> name,
             port         |-> {m[matching[1]].port},
             all_ports    |-> [i \in 1..Len(matching) |-> m[matching[i]].port],
             lease        |-> {m[matching[1]]}]

\* A renewal that writes a time before the clock reading.
RenewLeaseBackdated(lease, clock) == [lease EXCEPT !.last_heartbeat = clock - 1]

\* heartbeat: lease.last_heartbeat = now
RenewLease(lease, clock) == [lease EXCEPT !.last_heartbeat = clock]

\* What a step reports: the operation, its HTTP status, the port concerned,
\* and the ports whose store call failed in it.
Resp(op, status, port, failed) ==
    [op |-> op, status |-> status, port |-> port, failed |-> failed]

\* ------------------------------------------------------------------ tasks
\* Two request handlers that axum may run at once, and the cleaner task.
Handlers == {"h1", "h2"}

Tasks == Handlers \cup {"cleaner"}

\* A task that runs no operation: a handler before a request arrives, the
\* cleaner in interval.tick().await.
Idle == [op |-> "idle", port |-> 0, loc |-> "idle", id |-> 0, saved |-> FALSE]

\* ------------------------------------------------------------ initial state
\* First start: init_db creates an empty table, load_leases returns an
\* empty map, PM_PORT_MIN / PM_PORT_MAX are whatever the environment gives.
Init ==
    /\ now = 0
    /\ min_port \in Ports
    /\ max_port \in Ports
    /\ leases = EmptyMap
    /\ store = {}
    /\ pc = "idle"
    /\ sweepNow = 0
    /\ expired = {}
    /\ last = Resp("start", "OK", 0, {})
    /\ nops = 0
    /\ held = EmptyMap
    /\ renewedAt = EmptyMap
    /\ due = {}
    /\ delFail = {}
    /\ writers = {}
    /\ readers = {}
    /\ dbHolders = {}
    /\ at = [t \in Tasks |-> Idle]
    /\ keys = {}
    /\ rows = {}
    /\ snapshot = {}
    /\ mlog = <<>>

\* ------------------------------------------------------------------ clock
Tick ==
    /\ now < MaxTime
    /\ now' = now + 1
    /\ last' = Resp("tick", "OK", 0, {})
    /\ UNCHANGED <<min_port, max_port, leases, store, pc, sweepNow, expired,
                   nops, held, renewedAt, due, delFail>>
    /\ UNCHANGED lockVars

\* --------------------------------------------------------------- handlers
\* POST /alloc.  saveErr: whether save_lease returns Err.
AllocatePort(payload, saveErr) ==
    /\ nops < MaxOps
    /\ nops' = nops + 1
    /\ LET port  == SelectPort(leases, min_port, max_port)
           lease == NewLease(port, payload, now)
       IN IF port = 0
          THEN /\ last' = Resp("alloc", "SERVICE_UNAVAILABLE", 0, {})
               /\ UNCHANGED <<leases, store, held, renewedAt>>
          ELSE /\ store' = IF saveErr THEN store ELSE SaveLease(store, lease)
               /\ leases' = AllocInsert(leases, port, lease, ~saveErr)
               /\ IF ~saveErr
                  THEN /\ last' = Resp("alloc", "OK", port, {})
                       /\ held' = MapInsert(held, port,
                                     [hb |-> now, ttl |-> lease.ttl_seconds])
                       /\ renewedAt' = MapRemove(renewedAt, port)
                  ELSE /\ last' = Resp("alloc", "INTERNAL_SERVER_ERROR",
                                       port, {port})
                       /\ UNCHANGED <<held, renewedAt>>
    /\ UNCHANGED <<now, min_port, max_port, pc, sweepNow, expired, due, delFail>>
    /\ UNCHANGED lockVars

\* A release that answers OK whatever the table holds.
RemoveIsSomeAlways(m, port) == TRUE

\* leases.remove(&payload.port).is_some()
RemoveIsSome(m, port) == port \in DOMAIN m

\* POST /release.  delErr: whether delete_lease returns Err.
ReleasePort(port, delErr) ==
    /\ nops < MaxOps
    /\ nops' = nops + 1
    /\ IF RemoveIsSome(leases, port)
       THEN /\ leases' = MapRemove(leases, port)
            /\ store' = IF delErr THEN store ELSE DeleteLease(store, port)
            /\ last' = Resp("release", "OK", port,
                            IF delErr THEN {port} ELSE {})
            /\ held' = MapRemove(held, port)
            /\ renewedAt' = MapRemove(renewedAt, port)
            /\ delFail' = IF pc # "idle" /\ delErr
                          THEN delFail \cup {port} ELSE delFail
       ELSE /\ last' = Resp("release", "NOT_FOUND", port, {})
            /\ UNCHANGED <<leases, store, held, renewedAt, delFail>>
    /\ UNCHANGED <<now, min_port, max_port, pc, sweepNow, expired, due>>
    /\ UNCHANGED lockVars

\* POST /heartbeat.  updErr: whether update_heartbeat returns Err.
Heartbeat(port, updErr) ==
    /\ nops < MaxOps
    /\ nops' = nops + 1
    /\ IF port \in DOMAIN leases
       THEN /\ leases' = [leases EXCEPT ![port] = RenewLease(@, now)]
            /\ store' = IF updErr THEN store
                        ELSE UpdateHeartbeat(store, port, now)
            /\ last' = Resp("heartbeat", "OK", port,
                            IF updErr THEN {port} ELSE {})
            /\ held' = IF port \in DOMAIN held
                       THEN [held EXCEPT ![port].hb = now] ELSE held
            /\ renewedAt' = MapInsert(renewedAt, port, now)
            /\ due' = due \ {leases[port]}
       ELSE /\ last' = Resp("heartbeat", "NOT_FOUND", port, {})
            /\ UNCHANGED <<leases, store, held, renewedAt, due>>
    /\ UNCHANGED <<now, min_port, max_port, pc, sweepNow, expired, delFail>>
    /\ UNCHANGED lockVars

\* ------------------------------------------------------ background cleaner
\* interval.tick().await; let now = Utc::now();
SweepBegin ==
    /\ pc = "idle"
    /\ pc' = "scan"
    /\ sweepNow' = now
    /\ last' = Resp("begin", "OK", 0, {})
    /\ due' = {l \in ListAll(leases) : now > l.last_heartbeat + l.ttl_seconds}
    /\ delFail' = {}
    /\ UNCHANGED <<now, min_port, max_port, leases, store, expired, nops,
                   held, renewedAt>>
    /\ UNCHANGED lockVars

\* The block under leases.read(): collect the expired ports.
SweepScan ==
    /\ pc = "scan"
    /\ LET found == ExpiredPorts(leases, sweepNow)
       IN /\ expired' = found
          /\ pc' = IF found = {} THEN "idle" ELSE "remove"
          /\ sweepNow' = IF found = {} THEN 0 ELSE sweepNow
          /\ due' = IF found = {} THEN {} ELSE due
          /\ delFail' = IF found = {} THEN {} ELSE delFail
    /\ last' = Resp("scan", "OK", 0, {})
    /\ UNCHANGED <<now, min_port, max_port, leases, store, nops,
                   held, renewedAt>>
    /\ UNCHANGED lockVars

\* The block under leases.write() and db.lock(): for each port of `expired`,
\* leases.remove(&port) and delete_lease, whose error is dropped.
\* failed: the ports whose delete_lease returns Err.
SweepRemove(failed) ==
    /\ pc = "remove"
    /\ leases' = [p \in (DOMAIN leases) \ expired |-> leases[p]]
    /\ store' = SweepDeletes(store, expired, failed)
    /\ renewedAt' = [p \in (DOMAIN renewedAt) \ expired |-> renewedAt[p]]
    /\ pc' = "idle"
    /\ sweepNow' = 0
    /\ expired' = {}
    /\ last' = Resp("remove", "OK", 0, failed)
    /\ due' = {}
    /\ delFail' = {}
    /\ UNCHANGED <<now, min_port, max_port, nops, held>>
    /\ UNCHANGED lockVars

\* ---------------------------------------------------------------- start-up
\* The process dies and main runs again on the same database file.
\* loadErr: whether load_leases returns Err (unwrap_or_default then);
\* deleted: the rows delete_expired removed before returning (all of the
\* expired ones when it returns Ok).  PM_PORT_MIN and PM_PORT_MAX are read
\* again from the same environment.
Restart(loadErr, deleted) ==
    /\ nops < MaxOps
    /\ nops' = nops + 1
    /\ deleted \subseteq ExpiredRows(store, now)
    /\ leases' = IF loadErr THEN EmptyMap ELSE LoadLeases(store, now)
    /\ store' = {r \in store : r.port \notin deleted}
    /\ pc' = "idle"
    /\ sweepNow' = 0
    /\ expired' = {}
    /\ last' = Resp("restart", "OK", 0, ExpiredRows(store, now) \ deleted)
    /\ held' = EmptyMap
    /\ renewedAt' = EmptyMap
    /\ due' = {}
    /\ delFail' = {}
    /\ UNCHANGED <<now, min_port, max_port>>
    /\ UNCHANGED lockVars

\* ---------------------------------------------------------- specifications
\* One process run: requests, the cleaner and the clock.
NextRun ==
    \/ Tick
    \/ \E payload \in Requests, saveErr \in BOOLEAN : AllocatePort(payload, saveErr)
    \/ \E port \in Ports, delErr \in BOOLEAN : ReleasePort(port, delErr)
    \/ \E port \in Ports, updErr \in BOOLEAN : Heartbeat(port, updErr)
    \/ SweepBegin
    \/ SweepScan
    \/ \E failed \in SUBSET expired : SweepRemove(failed)

SpecRun == Init /\ [][NextRun]_vars

\* Process runs separated by restarts.
Next ==
    \/ NextRun
    \/ \E loadErr \in BOOLEAN, deleted \in SUBSET Ports : Restart(loadErr, deleted)

Spec == Init /\ [][Next]_vars

\* ------------------------------------------------------- lock-level steps
\* The same operations, one step per lock call and per table or store call,
\* run by two handlers and the cleaner at once.  The table and the store are
\* kept as the sets of their ports; which leases the cleaner finds expired
\* is an input of its scan.

\* What the lock-level steps leave alone.
frame == <<now, min_port, max_port, leases, store, pc, sweepNow, expired,
           last, held, renewedAt, due, delFail>>

WriteOps == {"alloc", "release", "heartbeat"}

ReadOps == {"list", "lookup"}

\* A write lock that is granted whoever holds the table.
WriteAvailableAlways(t) == TRUE

\* A write lock that is granted next to another writer.
WriteAvailableShared(t) == readers = {}

\* RwLock::write returns once no guard of the lock is alive.
WriteAvailable(t) == writers = {} /\ readers = {}

\* RwLock::read returns once no write guard is alive.
ReadAvailable(t) == writers = {}

\* Mutex::lock returns once no guard of the mutex is alive.
DbAvailable(t) == dbHolders = {}

\* A guard that stays alive after the block that took it.
DropGuardKept(holders, t) == holders

\* A guard goes out of scope: its task no longer holds the lock.
DropGuard(holders, t) == holders \ {t}

Goto(t, loc) == [at EXCEPT ![t].loc = loc]

\* The history with one more mutation of the table ("table") or of the
\* store ("store"), made by the operation task t runs, on `port`.
Logged(kind, t, port) ==
    Append(mlog, [kind |-> kind, id |-> at[t].id, port |-> port])

\* A request reaches a free handler.
Receive(t, op, port) ==
    /\ at[t].loc = "idle"
    /\ nops < MaxOps
    /\ nops' = nops + 1
    /\ port # 0 <=> op \in {"release", "heartbeat"}
    /\ at' = [at EXCEPT ![t] = [op |-> op, port |-> port, loc |-> "start",
                                id |-> nops + 1, saved |-> FALSE]]
    /\ UNCHANGED <<frame, writers, readers, dbHolders, keys, rows, snapshot, mlog>>

\* interval.tick().await returns in the cleaner.
CleanerTick ==
    /\ at["cleaner"].loc = "idle"
    /\ nops < MaxOps
    /\ nops' = nops + 1
    /\ at' = [at EXCEPT !["cleaner"] = [op |-> "sweep", port |-> 0, loc |-> "start",
                                        id |-> nops + 1, saved |-> FALSE]]
    /\ UNCHANGED <<frame, writers, readers, dbHolders, keys, rows, snapshot, mlog>>

\* leases.read().unwrap() in list_leases, lookup_service and the cleaner.
LockRead(t) ==
    /\ at[t].loc = "start"
    /\ at[t].op \in ReadOps \cup {"sweep"}
    /\ ReadAvailable(t)
    /\ readers' = readers \cup {t}
    /\ at' = Goto(t, "read")
    /\ UNCHANGED <<frame, nops, writers, dbHolders, keys, rows, snapshot, mlog>>

\* list_leases and lookup_service read the table.
ReadTable(t) ==
    /\ at[t].loc = "read"
    /\ at[t].op \in ReadOps
    /\ at' = Goto(t, "unlockR")
    /\ UNCHANGED <<frame, nops, writers, readers, dbHolders, keys, rows, snapshot, mlog>>

\* The cleaner collects `expired`: found, the keys whose lease it finds
\* past its deadline.
CleanerScan(found) ==
    /\ at["cleaner"].loc = "read"
    /\ at["cleaner"].op = "sweep"
    /\ found \subseteq keys
    /\ snapshot' = found
    /\ at' = Goto("cleaner", "unlockR")
    /\ UNCHANGED <<frame, nops, writers, readers, dbHolders, keys, rows, mlog>>

\* The read guard is dropped; the cleaner goes on if `expired` is not empty.
UnlockRead(t) ==
    /\ at[t].loc = "unlockR"
    /\ readers' = DropGuard(readers, t)
    /\ at' = IF at[t].op = "sweep" /\ snapshot # {}
             THEN Goto(t, "lockW")
             ELSE [at EXCEPT ![t] = Idle]
    /\ UNCHANGED <<frame, nops, writers, dbHolders, keys, rows, snapshot, mlog>>

\* leases.write().unwrap() in allocate_port, release_port, heartbeat and
\* in the cleaner's removal block.
LockWrite(t) ==
    /\ \/ at[t].loc = "start" /\ at[t].op \in WriteOps
       \/ at[t].loc = "lockW"
    /\ WriteAvailable(t)
    /\ writers' = writers \cup {t}
    /\ at' = Goto(t, IF at[t].op = "sweep" THEN "lockDb" ELSE "body")
    /\ UNCHANGED <<frame, nops, readers, dbHolders, keys, rows, snapshot, mlog>>

\* allocate_port scans the range for a key that is not in the table.
AllocScan(t) ==
    /\ at[t].loc = "body"
    /\ at[t].op = "alloc"
    /\ LET port == SelectPort([p \in keys |-> p], min_port, max_port)
       IN at' = IF port = 0
                THEN Goto(t, "unlockW")
                ELSE [at EXCEPT ![t].port = port, ![t].loc = "lockDb"]
    /\ UNCHANGED <<frame, nops, writers, readers, dbHolders, keys, rows, snapshot, mlog>>

\* release_port: leases.remove(&payload.port).is_some()
ReleaseRemove(t) ==
    /\ at[t].loc = "body"
    /\ at[t].op = "release"
    /\ IF at[t].port \in keys
       THEN /\ keys' = keys \ {at[t].port}
            /\ mlog' = Logged("table", t, at[t].port)
            /\ at' = Goto(t, "lockDb")
       ELSE /\ at' = Goto(t, "unlockW")
            /\ UNCHANGED <<keys, mlog>>
    /\ UNCHANGED <<frame, nops, writers, readers, dbHolders, rows, snapshot>>

\* heartbeat: leases.get_mut(&payload.port), lease.last_heartbeat = now
HeartbeatTouch(t) ==
    /\ at[t].loc = "body"
    /\ at[t].op = "heartbeat"
    /\ IF at[t].port \in keys
       THEN /\ mlog' = Logged("table", t, at[t].port)
            /\ at' = Goto(t, "lockDb")
       ELSE /\ at' = Goto(t, "unlockW")
            /\ UNCHANGED mlog
    /\ UNCHANGED <<frame, nops, writers, readers, dbHolders, keys, rows, snapshot>>

\* db.lock().unwrap() in the three handlers and in the cleaner.
LockDb(t) ==
    /\ at[t].loc = "lockDb"
    /\ DbAvailable(t)
    /\ dbHolders' = dbHolders \cup {t}
    /\ at' = Goto(t, IF at[t].op = "sweep" THEN "remove" ELSE "store")
    /\ UNCHANGED <<frame, nops, writers, readers, keys, rows, snapshot, mlog>>

\* The handler's store call: save_lease, delete_lease or update_heartbeat.
\* err: whether it returns Err.
StoreCall(t, err) ==
    /\ at[t].loc = "store"
    /\ rows' = IF err THEN rows
               ELSE IF at[t].op = "alloc" THEN rows \cup {at[t].port}
               ELSE IF at[t].op = "release" THEN rows \ {at[t].port}
               ELSE rows
    /\ mlog' = IF err THEN mlog ELSE Logged("store", t, at[t].port)
    /\ at' = [at EXCEPT ![t].saved = ~err, ![t].loc = "unlockDb"]
    /\ UNCHANGED <<frame, nops, writers, readers, dbHolders, keys, snapshot>>

\* The db guard goes out of scope.  allocate_port goes on to leases.insert
\* unless save_lease failed.
UnlockDb(t) ==
    /\ at[t].loc = "unlockDb"
    /\ dbHolders' = DropGuard(dbHolders, t)
    /\ at' = Goto(t, IF at[t].op = "alloc" /\ at[t].saved THEN "insert" ELSE "unlockW")
    /\ UNCHANGED <<frame, nops, writers, readers, keys, rows, snapshot, mlog>>

\* allocate_port: leases.insert(port, lease.clone())
AllocInsertKey(t) ==
    /\ at[t].loc = "insert"
    /\ keys' = keys \cup {at[t].port}
    /\ mlog' = Logged("table", t, at[t].port)
    /\ at' = Goto(t, "unlockW")
    /\ UNCHANGED <<frame, nops, writers, readers, dbHolders, rows, snapshot>>

\* The cleaner's loop body, first half: leases.remove(&port) for the next
\* port of `expired`.
CleanerRemove(port) ==
    /\ at["cleaner"].loc = "remove"
    /\ port \in snapshot
    /\ keys' = keys \ {port}
    /\ mlog' = IF port \in keys THEN Logged("table", "cleaner", port) ELSE mlog
    /\ at' = [at EXCEPT !["cleaner"].port = port, !["cleaner"].loc = "delete"]
    /\ UNCHANGED <<frame, nops, writers, readers, dbHolders, rows, snapshot>>

\* The cleaner's loop body, second half: delete_lease(&db, port).
CleanerDelete(err) ==
    /\ at["cleaner"].loc = "delete"
    /\ rows' = IF err THEN rows ELSE rows \ {at["cleaner"].port}
    /\ mlog' = IF err THEN mlog ELSE Logged("store", "cleaner", at["cleaner"].port)
    /\ snapshot' = snapshot \ {at["cleaner"].port}
    /\ at' = Goto("cleaner", IF snapshot' = {} THEN "unlockDb" ELSE "remove")
    /\ UNCHANGED <<frame, nops, writers, readers, dbHolders, keys>>

\* The write guard goes out of scope and the operation ends.
UnlockWrite(t) ==
    /\ at[t].loc = "unlockW"
    /\ writers' = DropGuard(writers, t)
    /\ at' = [at EXCEPT ![t] = Idle]
    /\ UNCHANGED <<frame, nops, readers, dbHolders, keys, rows, snapshot, mlog>>

NextLocks ==
    \/ \E t \in Handlers, op \in WriteOps \cup ReadOps, port \in Ports \cup {0} :
          Receive(t, op, port)
    \/ CleanerTick
    \/ \E t \in Tasks : LockRead(t)
    \/ \E t \in Handlers : ReadTable(t)
    \/ \E found \in SUBSET Ports : CleanerScan(found)
    \/ \E t \in Tasks : UnlockRead(t)
    \/ \E t \in Tasks : LockWrite(t)
    \/ \E t \in Handlers : AllocScan(t)
    \/ \E t \in Handlers : ReleaseRemove(t)
    \/ \E t \in Handlers : HeartbeatTouch(t)
    \/ \E t \in Tasks : LockDb(t)
    \/ \E t \in Handlers, err \in BOOLEAN : StoreCall(t, err)
    \/ \E t \in Tasks : UnlockDb(t)
    \/ \E t \in Handlers : AllocInsertKey(t)
    \/ \E port \in Ports : CleanerRemove(port)
    \/ \E err \in BOOLEAN : CleanerDelete(err)
    \/ \E t \in Tasks : UnlockWrite(t)

SpecLocks == Init /\ [][NextLocks]_vars

\* A lock call of task t.
Acquire(t) == LockRead(t) \/ LockWrite(t) \/ LockDb(t)

\* Any other step of the operation task t runs; the store calls return,
\* with Ok or with Err.
Proceed(t) ==
    \/ ReadTable(t)
    \/ t = "cleaner" /\ \E found \in SUBSET Ports : CleanerScan(found)
    \/ UnlockRead(t)
    \/ AllocScan(t)
    \/ ReleaseRemove(t)
    \/ HeartbeatTouch(t)
    \/ \E err \in BOOLEAN : StoreCall(t, err)
    \/ UnlockDb(t)
    \/ AllocInsertKey(t)
    \/ t = "cleaner" /\ \E port \in Ports : CleanerRemove(port)
    \/ t = "cleaner" /\ \E err \in BOOLEAN : CleanerDelete(err)
    \/ UnlockWrite(t)

\* The first start with PM_PORT_MIN = 1 and PM_PORT_MAX = MaxPort.
InitFullRange == Init /\ min_port = 1 /\ max_port = MaxPort

\* The lock-level steps under weak fairness for each task: a task whose
\* next step stays possible takes it in the end, be it a lock call, a table
\* call or a store call.  A behaviour has at most MaxOps operations, so a
\* waiting task is not overtaken for ever and no stronger fairness of the
\* locks is needed.  The port range is 1..MaxPort.
SpecLocksFair ==
    /\ InitFullRange
    /\ [][NextLocks]_vars
    /\ \A t \in Tasks : WF_vars(Proceed(t) \/ Acquire(t))

\* ------------------------------------------------------------ step shapes
\* The step is a call of allocate_port.
AllocStep == nops' = nops + 1 /\ last'.op = "alloc"

\* The step is a run of main's start-up.
RestartStep == nops' = nops + 1 /\ last'.op = "restart"

\* The step ends a sweep cycle of the cleaner.
SweepCompletes == pc # "idle" /\ pc' = "idle" /\ last'.op \in {"scan", "remove"}

\* The expiry rule of the data model: now > lastHeartbeat + ttlSeconds.
PastDeadline(hb, ttl, clock) == clock > hb + ttl

\* The ports of min_port..=max_port that are no key of the table.
FreePorts == {p \in min_port..max_port : p \notin DOMAIN leases}

\* ------------------------------------------------------------------ claims

\* C1: once Allocate has returned port p, no other Allocate returns p while
\* that grant is active, i.e. it was not released and now is at most the
\* time of its last successful Renew (or of its allocation) plus its TTL.
\* Stated for the grants with a positive TTL.
NoDoubleGrant ==
    [][ (AllocStep /\ last'.status = "OK")
          => ~ ( /\ last'.port \in DOMAIN held
                 /\ held[last'.port].ttl > 0
                 /\ ~PastDeadline(held[last'.port].hb, held[last'.port].ttl, now) )
      ]_vars

\* C2: the table holds at most one lease per port, each under its own port
\* as key, and the store holds at most one row per port.
OneLeasePerPort ==
    /\ \A p \in DOMAIN leases : leases[p].port = p
    /\ \A p, q \in DOMAIN leases : leases[p].port = leases[q].port => p = q
    /\ \A r1, r2 \in store : r1.port = r2.port => r1 = r2

\* Two ports are leased and stored, the second one just allocated.
OneLeasePerPortWitness ==
    /\ last.op = "alloc" /\ last.status = "OK"
    /\ Cardinality(DOMAIN leases) = 2
    /\ Cardinality(store) = 2

\* C3: when a sweep cycle that began after a lease's deadline completes, and
\* no heartbeat renewed the lease meanwhile, the lease is in no ListAll
\* answer, and in no store row unless a store delete for its port failed.
ExpiredLeaseReclaimed ==
    [][ SweepCompletes
          => \A l \in due :
                /\ l \notin ListAll(leases')
                /\ l.port \notin (delFail \cup last'.failed)
                      => RowOf(l) \notin store'
      ]_vars

\* A sweep cycle has just removed every lease, and every delete succeeded.
ExpiredLeaseReclaimedWitness ==
    /\ last.op = "remove" /\ last.failed = {}
    /\ leases = EmptyMap
    /\ store = {}

\* C4: after start-up no lease that was expired in the store is left in the
\* table or in the store.  Stated for the start-ups whose delete_expired
\* returned Ok.
StartupPurgesExpired ==
    [][ (RestartStep /\ last'.failed = {})
          => \A r \in store :
                PastDeadline(ParseRfc3339(r.last_heartbeat, now), r.ttl_seconds, now)
                   => r.port \notin DOMAIN leases' /\ r \notin store'
      ]_vars

\* C5: a stored lease that is not expired when the process restarts is in
\* the store and in the table afterwards, with the fields of its row.
RestartRoundTrip ==
    [][ RestartStep
          => \A r \in store :
                ~PastDeadline(ParseRfc3339(r.last_heartbeat, now), r.ttl_seconds, now)
                   => /\ r \in store'
                      /\ r.port \in DOMAIN leases'
                      /\ RowOf(leases'[r.port]) = r
      ]_vars

\* C6: a successful Allocate returns the smallest port of the range that
\* was no key of the table when it was called.
AllocReturnsLowestFree ==
    [][ (AllocStep /\ last'.status = "OK")
          => /\ last'.port \in FreePorts
             /\ \A q \in FreePorts : last'.port <= q
      ]_vars

\* min_port is leased and Allocate has just returned min_port + 1.
AllocReturnsLowestFreeWitness ==
    /\ last.op = "alloc" /\ last.status = "OK"
    /\ last.port = min_port + 1
    /\ min_port \in DOMAIN leases

\* C7: Allocate answers ResourceExhausted exactly when every port of the
\* range is a key of the table, and then changes neither table nor store.
ExhaustedIffRangeFull ==
    [][ AllocStep
          => /\ (last'.status = "SERVICE_UNAVAILABLE") <=> (FreePorts = {})
             /\ last'.status = "SERVICE_UNAVAILABLE"
                   => leases' = leases /\ store' = store
      ]_vars

\* From the empty table, max_port - min_port + 1 allocations have filled a
\* range of two or more ports and the next Allocate was refused.
ExhaustedIffRangeFullWitness ==
    /\ last.op = "alloc" /\ last.status = "SERVICE_UNAVAILABLE"
    /\ max_port > min_port
    /\ DOMAIN leases = min_port..max_port
    /\ nops = (max_port - min_port + 1) + 1

\* C8: every port a successful Allocate returns lies in min_port..max_port.
AllocatedPortInRange ==
    (last.op = "alloc" /\ last.status = "OK")
       => min_port <= last.port /\ last.port <= max_port

\* Allocate has just returned the lower end of a range that starts above
\* the first port number.
AllocatedPortInRangeWitness ==
    /\ last.op = "alloc" /\ last.status = "OK"
    /\ last.port = min_port
    /\ min_port > 1

\* C9: a lease whose last heartbeat was answered OK at time t is not expired
\* at any time before t + ttl_seconds, neither by the clock nor by the
\* clock value a running sweep cycle holds.
RenewalExtendsLife ==
    \A p \in DOMAIN renewedAt :
        /\ p \in DOMAIN leases
        /\ now < renewedAt[p] + leases[p].ttl_seconds
              => /\ ~LeaseExpired(leases[p], now)
                 /\ pc # "idle" => ~LeaseExpired(leases[p], sweepNow)

\* A renewed lease is alive although its TTL, counted from allocated_at,
\* has run out.
RenewalExtendsLifeWitness ==
    \E p \in DOMAIN renewedAt :
        /\ now < renewedAt[p] + leases[p].ttl_seconds
        /\ now > leases[p].allocated_at + leases[p].ttl_seconds

\* C10: when save_lease fails, Allocate answers with an error, the table is
\* unchanged, and the selected port is still free for ListAll and for the
\* next Allocate.
AllocAtomicOnSaveFailure ==
    [][ (AllocStep /\ last'.failed # {})
          => /\ last'.status = "INTERNAL_SERVER_ERROR"
             /\ leases' = leases
             /\ ListAll(leases') = ListAll(leases)
             /\ last'.port \notin DOMAIN leases'
             /\ SelectPort(leases', min_port', max_port') = last'.port
      ]_vars

\* An Allocate has just failed on the store while another port is leased.
AllocAtomicOnSaveFailureWitness ==
    /\ last.op = "alloc" /\ last.status = "INTERNAL_SERVER_ERROR"
    /\ last.failed = {last.port}
    /\ leases # EmptyMap

\* The step is a call of release_port or of heartbeat.
ReleaseStep == nops' = nops + 1 /\ last'.op = "release"

HeartbeatStep == nops' = nops + 1 /\ last'.op = "heartbeat"

\* C11: Release(p) or Renew(p) for a port that is no key of the table
\* answers NOT_FOUND and leaves table and store unchanged.
NotFoundHasNoEffect ==
    [][ ((ReleaseStep \/ HeartbeatStep) /\ last'.port \notin DOMAIN leases)
          => /\ last'.status = "NOT_FOUND"
             /\ leases' = leases
             /\ store' = store
      ]_vars

\* Release has just answered NOT_FOUND for a port that still has a store
\* row, left behind by an earlier failed delete.
NotFoundHasNoEffectWitness ==
    /\ last.op = "release" /\ last.status = "NOT_FOUND"
    /\ \E r \in store : r.port = last.port

\* C12: Release(p) for a port that is a key of the table (allocated and
\* neither released nor evicted since) answers OK; afterwards p is no key of
\* the table and, when delete_lease succeeded, has no store row.
ReleaseRemovesLease ==
    [][ (ReleaseStep /\ last'.port \in DOMAIN leases)
          => /\ last'.status = "OK"
             /\ last'.port \notin DOMAIN leases'
             /\ last'.failed = {} => \A r \in store' : r.port # last'.port
      ]_vars

\* One of two leased ports was just released and its row deleted; the
\* other lease and its row are still there.
ReleaseRemovesLeaseWitness ==
    /\ last.op = "release" /\ last.status = "OK" /\ last.failed = {}
    /\ Cardinality(DOMAIN leases) = 1
    /\ Cardinality(store) = 1
    /\ nops = 3

\* C13: when Release(p) has answered OK and the next request is an Allocate
\* that finds every port of the range below p occupied, that Allocate
\* selects p, and returns it unless save_lease fails.
ReleasedPortReusable ==
    [][ ( /\ AllocStep
          /\ last.op = "release" /\ last.status = "OK"
          /\ last.port \in min_port..max_port
          /\ \A q \in min_port..(last.port - 1) : q \in DOMAIN leases )
          => /\ last'.port = last.port
             /\ last'.failed = {} => last'.status = "OK"
      ]_vars

\* A port released while a sweep cycle was under way has been allocated
\* again by the request that followed the release.
ReleasedPortReusableWitness ==
    /\ last.op = "alloc" /\ last.status = "OK"
    /\ last.port \in delFail
    /\ last.port \in DOMAIN leases
    /\ nops = 3

\* The fields of a Lease, and of its row, other than last_heartbeat.
FrameFields == {"port", "service_name", "allocated_at", "ttl_seconds", "tags"}

SameButHeartbeat(a, b) == \A f \in FrameFields : a[f] = b[f]

\* C14: a Renew(p) that answers OK leaves port, service_name, ttl_seconds,
\* allocated_at and tags of the lease on p unchanged in the table and in the
\* store, and leaves every other lease and every other row unchanged.
RenewTouchesOnlyHeartbeat ==
    [][ (HeartbeatStep /\ last'.status = "OK")
          => LET p == last'.port
             IN /\ DOMAIN leases' = DOMAIN leases
                /\ SameButHeartbeat(leases'[p], leases[p])
                /\ \A q \in DOMAIN leases \ {p} : leases'[q] = leases[q]
                /\ {r \in store' : r.port # p} = {r \in store : r.port # p}
                /\ \A r \in store : r.port = p
                      => \E r2 \in store' : SameButHeartbeat(r2, r)
                /\ \A r2 \in store' : r2.port = p
                      => \E r \in store : SameButHeartbeat(r2, r)
      ]_vars

\* Of two leases, one was just renewed after its allocation time, in the
\* table and in the store.
RenewTouchesOnlyHeartbeatWitness ==
    /\ last.op = "heartbeat" /\ last.status = "OK" /\ last.failed = {}
    /\ Cardinality(DOMAIN leases) = 2
    /\ leases[last.port].last_heartbeat > leases[last.port].allocated_at
    /\ RowOf(leases[last.port]) \in store

\* The service names a lookup is made for: the requested ones and one that
\* no lease carries.
ServiceNames == {req.service_name : req \in Requests} \cup {"none"}

\* C15: LookupByService(name) lists exactly the ports of the table's leases
\* whose service_name is name, each once; its representative port and Lease
\* are of that list; and the answer is empty exactly when no lease matches.
LookupComplete ==
    \A order \in IterOrders(DOMAIN leases), name \in ServiceNames :
        LET r     == LookupService(leases, name, order)
            match == {p \in DOMAIN leases : leases[p].service_name = name}
        IN /\ r.service_name = name
           /\ {r.all_ports[i] : i \in 1..Len(r.all_ports)} = match
           /\ Len(r.all_ports) = Cardinality(match)
           /\ \A x \in r.port : x \in match
           /\ \A l \in r.lease : l.port \in r.port /\ l = leases[l.port]
           /\ (match = {}) <=> (r.port = {} /\ r.lease = {} /\ r.all_ports = <<>>)
           /\ (match # {}) <=> (r.port # {} /\ r.lease # {})

\* Two ports are leased under one service name and a lookup of that name
\* lists both, in an order that starts with the higher port.
LookupCompleteWitness ==
    \E name \in ServiceNames, order \in IterOrders(DOMAIN leases) :
        LET r == LookupService(leases, name, order)
        IN /\ Len(r.all_ports) = 2
           /\ r.all_ports[1] > r.all_ports[2]
           /\ r.port = {r.all_ports[1]}

\* The step is the cleaner's removal block.
SweepRemoveStep == pc = "remove" /\ last'.op = "remove"

\* C16: whenever a sweep cycle removes port p, the lease it removes is past
\* its deadline at the moment of the removal (now > last_heartbeat +
\* ttl_seconds), also when a Renew(p), or a Release(p) and a new Allocate
\* returning p, ran between the cleaner's scan and its removal.  Stated for
\* the leases with a positive TTL.
SweeperEvictsOnlyExpired ==
    [][ SweepRemoveStep
          => \A p \in (DOMAIN leases) \ (DOMAIN leases') :
                leases[p].ttl_seconds > 0
                   => PastDeadline(leases[p].last_heartbeat,
                                   leases[p].ttl_seconds, now)
      ]_vars

\* Task t is inside the critical section of a Renew(p): between its
\* leases.write() and the drop of that guard.
RenewInSection(t, p) ==
    /\ at[t].op = "heartbeat" /\ at[t].port = p
    /\ at[t].loc \in {"body", "lockDb", "store", "unlockDb", "unlockW"}

\* The cleaner is inside its removal block with p still to be removed from
\* the table or from the store.
CleanerRemoving(p) ==
    /\ at["cleaner"].loc \in {"lockDb", "remove", "delete"}
    /\ p \in snapshot

\* C17: the cleaner's removal of port p and a Renew(p) never overlap: no
\* handler is inside the critical section of Renew(p) while the cleaner is
\* inside its removal block for p.
RemovalExcludesRenew ==
    \A t \in Handlers, p \in Ports : ~(RenewInSection(t, p) /\ CleanerRemoving(p))

\* A Renew(p) has arrived and waits for the write lock while the cleaner,
\* holding it, is removing p.
RemovalExcludesRenewWitness ==
    \E t \in Handlers :
        /\ at[t].op = "heartbeat" /\ at[t].loc = "start"
        /\ CleanerRemoving(at[t].port)
        /\ at["cleaner"].loc = "delete"
        /\ writers = {"cleaner"}

\* The positions from which a task's next step calls the table or the store.
MutatingLocs == {"body", "store", "insert", "remove", "delete"}

\* The mutations of `kind` in the history, as <<operation, port>>, of the
\* operations that made both a table and a store mutation on that port.
PairedMutations(kind) ==
    LET both(e) == \E i, j \in 1..Len(mlog) :
                      /\ mlog[i].kind = "table" /\ mlog[j].kind = "store"
                      /\ mlog[i].id = e.id /\ mlog[j].id = e.id
                      /\ mlog[i].port = e.port /\ mlog[j].port = e.port
        sel == SelectSeq(mlog, LAMBDA e : e.kind = kind /\ both(e))
    IN [i \in 1..Len(sel) |-> <<sel[i].id, sel[i].port>>]

\* C18: every store mutation of Allocate, Release, Renew and the cleaner is
\* made while the task holds the only write guard of the table; the
\* mutations of one operation are never interleaved with those of another;
\* and the store mutations come in the order of the table mutations they
\* belong to.
StoreMutationsUnderWriteLock ==
    /\ dbHolders \subseteq writers
    /\ \A t \in Tasks : at[t].loc \in MutatingLocs => writers = {t}
    /\ \A i, j, k \in 1..Len(mlog) :
          (i < j /\ j < k /\ mlog[i].id = mlog[k].id) => mlog[j].id = mlog[i].id
    /\ PairedMutations("store") = PairedMutations("table")

\* An Allocate (store first, then table) and a Release of the same port
\* (table first, then store) have made their four mutations.
StoreMutationsUnderWriteLockWitness ==
    /\ Len(mlog) = 4
    /\ mlog[1].kind = "store" /\ mlog[2].kind = "table"
    /\ mlog[3].kind = "table" /\ mlog[4].kind = "store"
    /\ mlog[1].id # mlog[4].id
    /\ rows = {} /\ keys = {}

\* C19: when Release(p) has removed p from the table but its delete_lease
\* failed, a restart that follows does not bring the released lease back:
\* p is no key of the table after it.
ReleasedNotResurrected ==
    [][ ( /\ RestartStep
          /\ last.op = "release" /\ last.status = "OK"
          /\ last.failed = {last.port} )
          => last.port \notin DOMAIN leases'
      ]_vars

\* C20: in every state after start-up, each key of the table has a store
\* row for the same port with the same service_name, allocated_at and
\* ttl_seconds.  Stated for the leases with a positive TTL.
TableBackedByStore ==
    \A p \in DOMAIN leases :
        leases[p].ttl_seconds > 0
           => \E r \in store :
                 /\ r.port = p
                 /\ r.service_name = leases[p].service_name
                 /\ r.allocated_at = ToRfc3339(leases[p].allocated_at)
                 /\ r.ttl_seconds = leases[p].ttl_seconds

\* C21: when delete_lease fails for some expired ports of a sweep cycle,
\* those ports are still removed from the table, and every other expired
\* port of the cycle is removed from the table and from the store.
SweepContinuesOnFailure ==
    [][ SweepRemoveStep
          => \A p \in expired :
                /\ p \notin DOMAIN leases'
                /\ p \notin last'.failed => \A r \in store' : r.port # p
      ]_vars

\* A sweep cycle has just removed two leases from the table; the store
\* delete failed for one port, whose row is the only one left.
SweepContinuesOnFailureWitness ==
    /\ last.op = "remove" /\ Cardinality(last.failed) = 1
    /\ Cardinality(DOMAIN held) = 2
    /\ leases = EmptyMap
    /\ {r.port : r \in store} = last.failed

\* Task t runs an operation.
Running(t) == at[t].loc # "idle"

AllIdle == \A t \in Tasks : ~Running(t)

\* Task t waits for a lock it cannot be given now.
Blocked(t) ==
    \/ at[t].loc = "start" /\ at[t].op \in WriteOps /\ ~WriteAvailable(t)
    \/ at[t].loc = "lockW" /\ ~WriteAvailable(t)
    \/ at[t].loc = "start" /\ at[t].op \in ReadOps \cup {"sweep"} /\ ~ReadAvailable(t)
    \/ at[t].loc = "lockDb" /\ ~DbAvailable(t)

\* The table lock is taken before the store lock: who asks for a table
\* guard holds no lock, who holds or asks for the store guard holds the
\* write guard.
LockOrder ==
    /\ \A t \in Tasks : at[t].loc \in {"start", "lockW"}
                            => t \notin (writers \cup readers \cup dbHolders)
    /\ \A t \in Tasks : (at[t].loc = "lockDb" \/ t \in dbHolders) => t \in writers

\* C22: with store calls that return and fair lock acquisition, every
\* Allocate, Release, Renew, LookupByService and ListAll call and every
\* sweep cycle that has started completes; the two locks are always taken
\* in the same order, and in no state is every running task blocked.
OperationsComplete ==
    /\ [](LockOrder /\ (AllIdle \/ \E t \in Tasks : Running(t) /\ ~Blocked(t)))
    /\ \A t \in Tasks : Running(t) ~> ~Running(t)

\* The cleaner, with ports to remove, waits for the write lock that a
\* handler holds together with the store lock.
OperationsCompleteWitness ==
    /\ Cardinality(writers) = 1 /\ dbHolders = writers
    /\ at["cleaner"].loc = "lockW" /\ Blocked("cleaner")
    /\ snapshot # {}

\* C23: last_heartbeat equals allocated_at when Allocate creates a lease;
\* no step of an operation of the running process (Allocate, Release,
\* Renew, the sweep) sets last_heartbeat of a lease that stays in the table
\* to an earlier value; and last_heartbeat >= allocated_at for every lease
\* of the table, also for the table a start-up builds.
HeartbeatMonotone ==
    [][ /\ (AllocStep /\ last'.status = "OK")
            => leases'[last'.port].last_heartbeat = leases'[last'.port].allocated_at
        /\ ~RestartStep
            => \A p \in (DOMAIN leases) \cap (DOMAIN leases') :
                  leases'[p].allocated_at = leases[p].allocated_at
                     => leases'[p].last_heartbeat >= leases[p].last_heartbeat
        /\ \A p \in DOMAIN leases' :
              leases'[p].last_heartbeat >= leases'[p].allocated_at
      ]_vars

\* The only lease has just been renewed two seconds after its allocation.
HeartbeatMonotoneWitness ==
    /\ last.op = "heartbeat" /\ last.status = "OK"
    /\ nops = 3
    /\ Cardinality(DOMAIN leases) = 1
    /\ leases[last.port].last_heartbeat = leases[last.port].allocated_at + 2

\* The ttl_seconds a request of Requests asks for: its override, or the
\* default when it gives none.
RequestedTtls == {UnwrapOr(req.ttl_seconds, DEFAULT_TTL) : req \in Requests}

\* C24: every lease Allocate creates has its caller's TTL override, or the
\* default of 300 s when none was given, and a positive ttl_seconds: no
\* lease with ttl_seconds = 0 is ever in the table or in the store.
TtlPositive ==
    /\ \A p \in DOMAIN leases :
          leases[p].ttl_seconds \in RequestedTtls /\ leases[p].ttl_seconds > 0
    /\ \A r \in store :
          r.ttl_seconds \in RequestedTtls /\ r.ttl_seconds > 0

====
